---- MODULE Spec2Model ----
(***************************************************************************)
(* Model of matgendb/vv/report.py: the report tree (Header, Table, Report, *)
(* ReportSection), the HTML, JSON and Markdown formatters, and the         *)
(* Emailer.  Python values are tagged records, strings are TLA+ strings    *)
(* (Len and \o are the only string operations used), and Python's 0-based  *)
(* positions are kept in the calls and shifted by one inside sequences.    *)
(***************************************************************************)
EXTENDS Integers, Sequences, FiniteSets, TLC

VARIABLES tbl, hdr, report, mailer, op

vars == <<tbl, hdr, report, mailer, op>>

(***************************************************************************)
(* Bounds of the model.                                                    *)
(***************************************************************************)
MaxRows == 3
MaxFormatRows == 2
MaxPairs == 3
MaxRecipients == 2

(***************************************************************************)
(* Python values: an int or a str.                                         *)
(***************************************************************************)
PyInt(n) == [t |-> "int", n |-> n, s |-> ""]
PyStr(s) == [t |-> "str", n |-> 0, s |-> s]
PyNone == [t |-> "none", n |-> 0, s |-> ""]

Digit == <<"0", "1", "2", "3", "4", "5", "6", "7", "8", "9">>

RECURSIVE NatStr(_)
NatStr(n) == IF n < 10 THEN Digit[n + 1]
             ELSE NatStr(n \div 10) \o Digit[(n % 10) + 1]

\* str(v) of a Python value
StrOf(v) == IF v.t = "int"
            THEN (IF v.n < 0 THEN "-" \o NatStr(0 - v.n) ELSE NatStr(v.n))
            ELSE v.s

\* bool(v): the truth value Python gives v in a condition
Truthy(v) == IF v.t = "int" THEN v.n # 0
             ELSE IF v.t = "str" THEN v.s # ""
             ELSE FALSE

\* the cell values rows are drawn from (ints: 0 is falsy, 10 has two digits)
CellValues == {PyInt(0), PyInt(1), PyInt(10)}

\* the column-name lists tables are constructed with
ColNameChoices == {<<"id">>, <<"id", "count">>, <<"k", "k">>}

ColNames == {"id", "count", "k", "zz"}

(***************************************************************************)
(* Header                                                                  *)
(***************************************************************************)
\* Header.__init__
Header_init(title) == [title |-> title, kv |-> <<>>]

\* Header.add
Header_add_unique(h, key, value) ==
    LET Other(p) == p[1] # key
    IN [h EXCEPT !.kv = Append(SelectSeq(@, Other), <<key, value>>)]
Header_add(h, key, value) == [h EXCEPT !.kv = Append(@, <<key, value>>)]

\* Header.get, consumed: the values the generator yields
Header_get(h, key) ==
    LET Match(p) == p[1] = key
        hits == SelectSeq(h.kv, Match)
    IN [i \in 1..Len(hits) |-> hits[i][2]]

\* Header.__iter__, consumed
Header_iter(h) == h.kv

\* Header.to_dict: a later pair of a key replaces an earlier one
Header_to_dict(h) ==
    [k \in {h.kv[i][1] : i \in 1..Len(h.kv)} |->
        h.kv[(CHOOSE i \in 1..Len(h.kv) :
                 h.kv[i][1] = k /\ \A j \in (i + 1)..Len(h.kv) : h.kv[j][1] # k)][2]]

(***************************************************************************)
(* Table                                                                   *)
(***************************************************************************)
\* Table.__init__
Table_init(colnames) ==
    [colnames |-> colnames,
     rows |-> <<>>,
     width |-> Len(colnames),
     max_col_widths |-> [i \in 1..Len(colnames) |-> Len(colnames[i])]]

\* Table.ncol, Table.nrow, Table.column_widths, Table.column_names
ncol(t) == t.width
nrow(t) == Len(t.rows)
column_widths(t) == t.max_col_widths
column_names(t) == t.colnames

\* the arity test of Table.add
AddRejects_lt(t, values) == Len(values) < t.width
AddRejects(t, values) == Len(values) # t.width

\* one step of the width loop of Table.add
UpdateWidth_last(w, v) == Len(StrOf(v))
UpdateWidth(w, v) == LET n == Len(StrOf(v)) IN IF w < n THEN n ELSE w

\* Table.add: the table afterwards and the error raised ("none" if none)
Table_add(t, values) ==
    IF AddRejects(t, values)
    THEN [tbl |-> t, err |-> "ValueError"]
    ELSE [tbl |-> [t EXCEPT
                     !.rows = Append(@, values),
                     !.max_col_widths =
                         [i \in DOMAIN @ |->
                            IF i <= Len(values) THEN UpdateWidth(@[i], values[i])
                            ELSE @[i]]],
          err |-> "none"]

\* list.index(name): the 0-based position of the first equal element, -1 if none
ListIndex(s, x) ==
    IF \E i \in 1..Len(s) : s[i] = x
    THEN (CHOOSE i \in 1..Len(s) : s[i] = x /\ \A j \in 1..(i - 1) : s[j] # x) - 1
    ELSE 0 - 1

\* the range test of Table.sortby on an integer index
IndexRejected_upper(t, index) == index >= t.width
IndexRejected(t, index) == index < 0 \/ index >= t.width

\* Table.sortby, column resolution: a name through list.index, an int through the
\* range test
ResolveColumn(t, name_or_index) ==
    IF name_or_index.t = "int"
    THEN (IF IndexRejected(t, name_or_index.n)
          THEN [err |-> "ValueError", colnum |-> 0 - 1]
          ELSE [err |-> "none", colnum |-> name_or_index.n])
    ELSE (IF ListIndex(t.colnames, name_or_index.s) < 0
          THEN [err |-> "ValueError", colnum |-> 0 - 1]
          ELSE [err |-> "none", colnum |-> ListIndex(t.colnames, name_or_index.s)])

\* itemgetter(colnum)(row); a negative position counts from the end
ItemGetter(row, colnum) ==
    IF colnum < 0 THEN row[Len(row) + colnum + 1] ELSE row[colnum + 1]

\* the order list.sort uses on the keys (cell values are ints)
KeyLe(a, b) == a.n <= b.n
KeyLt(a, b) == a.n < b.n

\* where the stable sort puts a row among already sorted rows: after every row
\* whose key is not greater
InsertPos_unstable(s, r, colnum) ==
    Cardinality({i \in 1..Len(s) : KeyLt(ItemGetter(s[i], colnum), ItemGetter(r, colnum))})
InsertPos(s, r, colnum) ==
    Cardinality({i \in 1..Len(s) : KeyLe(ItemGetter(s[i], colnum), ItemGetter(r, colnum))})

\* list.sort(key=itemgetter(colnum)): stable, ascending
RECURSIVE ListSort(_, _)
ListSort(rows, colnum) ==
    IF rows = <<>> THEN <<>>
    ELSE LET s == ListSort(SubSeq(rows, 1, Len(rows) - 1), colnum)
             r == rows[Len(rows)]
             n == InsertPos(s, r, colnum)
         IN SubSeq(s, 1, n) \o <<r>> \o SubSeq(s, n + 1, Len(s))

\* Table.sortby: the table afterwards and the error raised
Table_sortby(t, name_or_index) ==
    LET c == ResolveColumn(t, name_or_index)
    IN IF c.err # "none"
       THEN [tbl |-> t, err |-> c.err]
       ELSE [tbl |-> [t EXCEPT !.rows = ListSort(@, c.colnum)], err |-> "none"]

\* Table.values
Table_values(t) ==
    [r \in 1..Len(t.rows) |->
        [name \in {t.colnames[i] : i \in 1..t.width} |->
            t.rows[r][(CHOOSE i \in 1..t.width :
                         t.colnames[i] = name
                         /\ \A j \in (i + 1)..t.width : t.colnames[j] # name)]]]

(***************************************************************************)
(* A Table under construction: Table(colnames), then add and sortby calls. *)
(***************************************************************************)
\* the rows passed to add: every row of the right length, and rows of every
\* other length from 0 to ncol + 1
RowInputs(t) ==
    [1..t.width -> CellValues]
    \cup {[i \in 1..k |-> PyInt(1)] : k \in (0..(t.width + 1)) \ {t.width}}

\* the arguments passed to sortby: names in and not in the table, positions
\* from -1 to ncol + 1
SortInputs(t) ==
    {PyStr(n) : n \in ColNames} \cup {PyInt(i) : i \in (0 - 1)..(t.width + 1)}

NoCall == [name |-> "none", arg |-> PyInt(0), err |-> "none"]

IdleTable == Table_init(<<>>)
IdleHeader == [title |-> "", kv |-> <<>>]
IdleReport == [header |-> IdleHeader, sections |-> <<>>]
IdleMailer == [sender |-> "", recipients |-> <<>>, subject |-> "",
               server |-> "", port |-> PyNone]

InitTable ==
    /\ tbl \in {Table_init(c) : c \in ColNameChoices}
    /\ hdr = IdleHeader
    /\ report = IdleReport
    /\ mailer = IdleMailer
    /\ op = NoCall

TableAdd ==
    \E values \in RowInputs(tbl) :
        LET r == Table_add(tbl, values)
        IN /\ r.err # "none" \/ nrow(tbl) < MaxRows
           /\ tbl' = r.tbl
           /\ op' = [name |-> "add", arg |-> values, err |-> r.err]
           /\ UNCHANGED <<hdr, report, mailer>>

TableSortby ==
    \E x \in SortInputs(tbl) :
        LET r == Table_sortby(tbl, x)
        IN /\ tbl' = r.tbl
           /\ op' = [name |-> "sortby", arg |-> x, err |-> r.err]
           /\ UNCHANGED <<hdr, report, mailer>>

NextTable == TableAdd \/ TableSortby

SpecTable == InitTable /\ [][NextTable]_vars

Max(S) == CHOOSE m \in S : \A x \in S : x <= m

\* C1: Table.add of a row of ncol values succeeds, makes the row the last row
\* and raises nrow by exactly 1; of a row of any other length it raises
\* ValueError and leaves the rows, nrow and column_widths as they were.
C1_AddContract ==
    [][op'.name = "add" =>
         IF Len(op'.arg) = ncol(tbl)
         THEN /\ op'.err = "none"
              /\ nrow(tbl') = nrow(tbl) + 1
              /\ tbl'.rows = Append(tbl.rows, op'.arg)
         ELSE /\ op'.err = "ValueError"
              /\ nrow(tbl') = nrow(tbl)
              /\ tbl'.rows = tbl.rows
              /\ column_widths(tbl') = column_widths(tbl)]_vars

\* a row one value too long was refused by a table that already holds rows
C1_Witness ==
    /\ op.name = "add"
    /\ op.err = "ValueError"
    /\ Len(op.arg) = ncol(tbl) + 1
    /\ nrow(tbl) >= 2

\* C2: after any add and sortby calls, column_widths[i] is the maximum of the
\* length of column i's name and of len(str(v)) over the values stored in
\* column i.
C2_WidthsAreMax ==
    \A i \in 1..ncol(tbl) :
        column_widths(tbl)[i] =
            Max({Len(column_names(tbl)[i])}
                \cup {Len(StrOf(tbl.rows[r][i])) : r \in 1..nrow(tbl)})

\* a column grew past its name's length, a shorter value was added after the
\* longest one, and the last call was a sortby
C2_Witness ==
    /\ op.name = "sortby"
    /\ nrow(tbl) >= 2
    /\ \E i \in 1..ncol(tbl) :
          /\ column_widths(tbl)[i] > Len(column_names(tbl)[i])
          /\ \E r \in 1..nrow(tbl) : Len(StrOf(tbl.rows[r][i])) < column_widths(tbl)[i]

\* the column a sortby argument denotes: the position itself, or the first
\* column carrying the name
Denoted(t, x) ==
    IF x.t = "int" THEN x.n
    ELSE (CHOOSE i \in 1..t.width :
             t.colnames[i] = x.s /\ \A j \in 1..(i - 1) : t.colnames[j] # x.s) - 1

\* the other way of naming the column x denotes
OtherForm(t, x) ==
    IF x.t = "int" THEN PyStr(t.colnames[x.n + 1]) ELSE PyInt(Denoted(t, x))

RowsWithKey(rows, c, k) == LET Test(r) == r[c + 1] = k IN SelectSeq(rows, Test)

\* C3: an accepted sortby leaves the rows a permutation of the rows before,
\* non-decreasing in the column, rows of equal key in their previous relative
\* order; the column's name and its position give the same row order.
C3_SortStable ==
    [][(op'.name = "sortby" /\ op'.err = "none") =>
         LET c == Denoted(tbl, op'.arg)
         IN /\ Len(tbl'.rows) = Len(tbl.rows)
            /\ \A i \in 1..(Len(tbl'.rows) - 1) :
                  tbl'.rows[i][c + 1].n <= tbl'.rows[i + 1][c + 1].n
            /\ \A k \in CellValues :
                  RowsWithKey(tbl'.rows, c, k) = RowsWithKey(tbl.rows, c, k)
            /\ (Denoted(tbl, OtherForm(tbl, op'.arg)) = c =>
                  /\ Table_sortby(tbl, OtherForm(tbl, op'.arg)).err = "none"
                  /\ Table_sortby(tbl, OtherForm(tbl, op'.arg)).tbl.rows = tbl'.rows)]_vars

\* sorted by name, two rows tie in the column and stand in an order a sort on
\* the whole row would reverse
C3_Witness ==
    /\ op.name = "sortby"
    /\ op.err = "none"
    /\ op.arg.t = "str"
    /\ ncol(tbl) = 2
    /\ \E i \in 1..(nrow(tbl) - 1) :
          LET c == Denoted(tbl, op.arg)
          IN /\ tbl.rows[i][c + 1] = tbl.rows[i + 1][c + 1]
             /\ tbl.rows[i][2 - c].n > tbl.rows[i + 1][2 - c].n
             /\ \E j \in 1..nrow(tbl) : tbl.rows[j][c + 1] # tbl.rows[i][c + 1]

ValidSortArg(t, x) ==
    IF x.t = "int" THEN x.n \in 0..(t.width - 1)
    ELSE x.s \in {t.colnames[i] : i \in 1..t.width}

\* C4: sortby raises ValueError for a name not among column_names and for a
\* position outside [0, ncol), negative ones included, leaving the rows, nrow
\* and column_widths as they were; every other name or position is accepted.
C4_SortbyValidation ==
    [][op'.name = "sortby" =>
         IF ValidSortArg(tbl, op'.arg)
         THEN op'.err = "none"
         ELSE /\ op'.err = "ValueError"
              /\ tbl'.rows = tbl.rows
              /\ nrow(tbl') = nrow(tbl)
              /\ column_widths(tbl') = column_widths(tbl)]_vars

\* a negative position was refused by a table holding unsorted rows
C4_Witness ==
    /\ op.name = "sortby"
    /\ op.err = "ValueError"
    /\ op.arg.t = "int"
    /\ op.arg.n < 0
    /\ \E i \in 1..(nrow(tbl) - 1) : tbl.rows[i][1].n > tbl.rows[i + 1][1].n

(***************************************************************************)
(* A Header under construction: Header(title), then add, get and iteration.*)
(***************************************************************************)
HeaderKeys == {"host", "user"}
HeaderValues == {"db1", "db2"}
\* the keys looked up: those that may be added and one that never is
LookupKeys == HeaderKeys \cup {"missing"}

InitHeader ==
    /\ hdr = Header_init("Nightly Check")
    /\ tbl = IdleTable
    /\ report = IdleReport
    /\ mailer = IdleMailer
    /\ op = NoCall

HeaderAdd ==
    \E k \in HeaderKeys, v \in HeaderValues :
        /\ Len(hdr.kv) < MaxPairs
        /\ hdr' = Header_add(hdr, k, v)
        /\ op' = [name |-> "add", arg |-> <<k, v>>, err |-> "none"]
        /\ UNCHANGED <<tbl, report, mailer>>

\* get(key) consumed at once: the header is only read
HeaderGet ==
    \E k \in LookupKeys :
        /\ hdr' = hdr
        /\ op' = [name |-> "get", arg |-> k, err |-> "none",
                  result |-> Header_get(hdr, k)]
        /\ UNCHANGED <<tbl, report, mailer>>

HeaderIter ==
    /\ hdr' = hdr
    /\ op' = [name |-> "iter", arg |-> "", err |-> "none", result |-> Header_iter(hdr)]
    /\ UNCHANGED <<tbl, report, mailer>>

NextHeader == HeaderAdd \/ HeaderGet \/ HeaderIter

SpecHeader == InitHeader /\ [][NextHeader]_vars

\* C8: iteration yields the added pairs in insertion order with duplicate
\* keys kept: empty at first, and each add(k, v) appends (k, v) to what
\* iteration yields, appends v to what get(k) yields and leaves get of every
\* other key alone; get of a key not among the pairs yields the empty
\* sequence with no error; get and iteration return these values and leave
\* the header as it was.
C8_HeaderOrder ==
    /\ Header_iter(hdr) = <<>>
    /\ [][/\ op'.name = "add" =>
               /\ Header_iter(hdr') = Append(Header_iter(hdr), op'.arg)
               /\ \A k \in LookupKeys :
                     Header_get(hdr', k) =
                         IF k = op'.arg[1]
                         THEN Append(Header_get(hdr, k), op'.arg[2])
                         ELSE Header_get(hdr, k)
          /\ op'.name = "get" =>
               /\ hdr' = hdr
               /\ op'.err = "none"
               /\ op'.result = Header_get(hdr, op'.arg)
               /\ ((\A i \in 1..Len(hdr.kv) : hdr.kv[i][1] # op'.arg)
                      => op'.result = <<>>)
          /\ op'.name = "iter" =>
               /\ hdr' = hdr
               /\ op'.result = Header_iter(hdr)]_vars

\* get of a key added twice, with another key's pair in between, returned
\* its two values in the order added
C8_Witness ==
    /\ op.name = "get"
    /\ Len(op.result) = 2
    /\ op.result[1] # op.result[2]
    /\ Len(hdr.kv) = 3
    /\ hdr.kv[2][1] # op.arg

(***************************************************************************)
(* Emailer                                                                 *)
(***************************************************************************)
\* Emailer.__init__
Emailer_init(sender, recipients, subject, server, port) ==
    [sender |-> sender, recipients |-> recipients, subject |-> subject,
     server |-> server, port |-> port]

\* dict(text=MIMEText).get(main_fmt, MIMEText)
MimeClass(main_fmt) ==
    LET known == [text |-> "MIMEText"]
    IN IF main_fmt \in DOMAIN known THEN known[main_fmt] ELSE "MIMEText"

\* ', '.join(recipients)
RECURSIVE JoinComma(_)
JoinComma(r) ==
    IF r = <<>> THEN ""
    ELSE IF Len(r) = 1 THEN r[1]
    ELSE r[1] \o ", " \o JoinComma(Tail(r))

\* the connection arguments: the port is passed only when one is configured
ConnKwargs(m) ==
    IF m.port = PyNone THEN [host |-> m.server]
    ELSE [host |-> m.server, port |-> m.port.n]

\* the transport calls inside the try block of Emailer.send
Guarded_noquit == {"connect", "sendmail"}
Guarded == {"connect", "sendmail", "quit"}

\* Emailer.send(text, main_fmt/sub_fmt) when the transport fails at step
\* failAt ("none": at no step): the value returned, or the error that leaves
\* the call, the message built and the Emailer afterwards
Emailer_send(m, text, main_fmt, sub_fmt, failAt) ==
    LET msg == [class |-> MimeClass(main_fmt), text |-> text, subtype |-> sub_fmt,
                Subject |-> m.subject, From |-> m.sender,
                To |-> JoinComma(m.recipients)]
        base == [mailer |-> m, msg |-> msg, conn |-> ConnKwargs(m)]
    IN IF failAt = "none"
       THEN base @@ [err |-> "none", result |-> Len(m.recipients)]
       ELSE IF failAt \in Guarded
            THEN base @@ [err |-> "none", result |-> 0]
            ELSE base @@ [err |-> "raised", result |-> 0 - 1]

Recipients == {"you@remote.host", "ops@remote.host"}
MainTypes == {"text", "application", "image"}
SubTypes == {"html", "plain"}
\* where the transport may fail: nowhere, in SMTP(), in sendmail(), in quit()
FailSteps == {"none", "connect", "sendmail", "quit"}

SeqsUpTo(S, n) == UNION {[1..k -> S] : k \in 0..n}

InitEmail ==
    /\ mailer \in {Emailer_init("me@localhost", r, "Report", "localhost", p) :
                      r \in SeqsUpTo(Recipients, MaxRecipients),
                      p \in {PyNone, PyInt(25)}}
    /\ tbl = IdleTable
    /\ hdr = IdleHeader
    /\ report = IdleReport
    /\ op = NoCall

EmailerSend ==
    \E main \in MainTypes, sub \in SubTypes, failAt \in FailSteps :
        LET r == Emailer_send(mailer, "<html></html>", main, sub, failAt)
        IN /\ mailer' = r.mailer
           /\ op' = [name |-> "send", arg |-> <<main, sub, failAt>>, err |-> r.err,
                     result |-> r.result, msg |-> r.msg, conn |-> r.conn]
           /\ UNCHANGED <<tbl, hdr, report>>

NextEmail == EmailerSend

SpecEmail == InitEmail /\ [][NextEmail]_vars

\* C6: send never lets a transport error out: it returns 0 when connecting,
\* sending or closing fails, and the number of configured recipients when all
\* three succeed, for known and unknown main types alike, and leaves the
\* Emailer's sender, recipients, subject, server and port as they were.
C6_SendNonFatal ==
    [][op'.name = "send" =>
         /\ op'.err = "none"
         /\ op'.result = IF op'.arg[3] = "none" THEN Len(mailer.recipients) ELSE 0
         /\ mailer' = mailer]_vars

\* closing the connection failed for an unknown main type with two
\* recipients configured, and send returned 0
C6_Witness ==
    /\ op.name = "send"
    /\ op.arg[1] = "application"
    /\ op.arg[3] = "quit"
    /\ op.result = 0
    /\ op.err = "none"
    /\ Len(mailer.recipients) = 2

(***************************************************************************)
(* Report and ReportSection                                                *)
(***************************************************************************)
\* Report.__init__
Report_init(header) == [header |-> header, sections |-> <<>>]

\* ReportSection.__init__
ReportSection_init(header, body) ==
    [header |-> header, sections |-> <<>>, body |-> body]

\* Report.add_section
add_section(r, section) == [r EXCEPT !.sections = Append(@, section)]

\* Report.is_empty
is_empty(r) == Len(r.sections) = 0

\* sep.join(lines)
RECURSIVE Join(_, _)
Join(lines, sep) ==
    IF Len(lines) = 0 THEN ""
    ELSE IF Len(lines) = 1 THEN lines[1]
    ELSE LET m == Len(lines) \div 2
         IN Join(SubSeq(lines, 1, m), sep) \o sep
            \o Join(SubSeq(lines, m + 1, Len(lines)), sep)

\* the concatenation of a sequence of sequences
RECURSIVE Flatten(_)
Flatten(ss) ==
    IF Len(ss) = 0 THEN <<>>
    ELSE IF Len(ss) = 1 THEN ss[1]
    ELSE LET m == Len(ss) \div 2
         IN Flatten(SubSeq(ss, 1, m)) \o Flatten(SubSeq(ss, m + 1, Len(ss)))

(***************************************************************************)
(* HTMLFormatter                                                           *)
(***************************************************************************)
\* HTMLFormatter.__init__: the default id_column
id_column == 0

\* the table's own row after the loop body has run on it: the body works on
\* list(row), a copy, so its assignment to row[idcol] stays in the copy
StoredRow_alias(row, shown) == shown
StoredRow(row, shown) == row

\* the test that joins a row to the run of the row before it
SameRun(prev_key, key) == Truthy(prev_key) /\ key = prev_key

\* one pass of the row loop of HTMLFormatter.format
HTMLRowStep(st, row, idcol) ==
    LET key == row[idcol + 1]
        same == SameRun(st.prev_key, key)
        shown == IF same THEN [row EXCEPT ![idcol + 1] = PyStr("")] ELSE row
        i == IF same THEN st.i ELSE st.i + 1
    IN [prev_key |-> IF same THEN st.prev_key ELSE key,
        i |-> i,
        out |-> Append(st.out, [rclass |-> <<"even", "odd">>[(i % 2) + 1],
                                cells |-> shown]),
        stored |-> Append(st.stored, StoredRow(row, shown))]

\* the row loop of HTMLFormatter.format over a table's rows
RECURSIVE HTMLRowLoop(_, _)
HTMLRowLoop(rows, idcol) ==
    IF rows = <<>>
    THEN [prev_key |-> PyNone, i |-> 0, out |-> <<>>, stored |-> <<>>]
    ELSE HTMLRowStep(HTMLRowLoop(SubSeq(rows, 1, Len(rows) - 1), idcol),
                     rows[Len(rows)], idcol)

\* the lines of a definition list of a header
HTMLHeaderLines(h, class) ==
    <<"<dl class=\"" \o class \o "\">">>
    \o Flatten([i \in 1..Len(h.kv) |->
                  <<"<dt>" \o h.kv[i][1] \o "</dt>", "<dd>" \o h.kv[i][2] \o "</dd>">>])
    \o <<"</dl>">>

\* the lines of a sub-section's table
HTMLTableLines(body, idcol) ==
    LET loop == HTMLRowLoop(body.rows, idcol)
    IN <<"<table>", "<tr>">>
       \o [i \in 1..Len(body.colnames) |-> "<th>" \o body.colnames[i] \o "</th>"]
       \o <<"</tr>">>
       \o Flatten([r \in 1..Len(loop.out) |->
                     <<"<tr class=\"" \o loop.out[r].rclass \o "\">">>
                     \o [c \in 1..Len(loop.out[r].cells) |->
                           "<td>" \o StrOf(loop.out[r].cells[c]) \o "</td>"]
                     \o <<"</tr>">>])
       \o <<"</table>">>

HTMLCondLines(cs, idcol) ==
    <<"<h3>" \o cs.header.title \o "</h3>">>
    \o HTMLHeaderLines(cs.header, "subsectmeta")
    \o HTMLTableLines(cs.body, idcol)

HTMLSectionLines(section, idcol) ==
    <<"<h2>" \o section.header.title \o "</h2>">>
    \o HTMLHeaderLines(section.header, "sectmeta")
    \o Flatten([c \in 1..Len(section.sections) |->
                  HTMLCondLines(section.sections[c], idcol)])

\* the report after HTMLFormatter.format: every table holds the rows the row
\* loop left in it
HTMLReportAfter(r, idcol) ==
    [r EXCEPT !.sections =
        [s \in 1..Len(r.sections) |->
            [r.sections[s] EXCEPT !.sections =
                [c \in 1..Len(r.sections[s].sections) |->
                    [r.sections[s].sections[c] EXCEPT !.body.rows =
                        HTMLRowLoop(@, idcol).stored]]]]]

\* HTMLFormatter.format: the text returned and the report afterwards
HTML_format(r, sep, idcol, css) ==
    LET text ==
            <<"<!DOCTYPE html>", "<html>",
              "<title>" \o r.header.title \o "</title>", "<head>">>
            \o (IF css # "" THEN <<"<style>", css, "</style>">> ELSE <<>>)
            \o <<"</head>", "<body>", "<h1>" \o r.header.title \o "</h1>">>
            \o HTMLHeaderLines(r.header, "rptmeta")
            \o Flatten([s \in 1..Len(r.sections) |->
                          HTMLSectionLines(r.sections[s], idcol)])
            \o <<"</body>", "</html>">>
    IN [err |-> "none", text |-> Join(text, sep), report |-> HTMLReportAfter(r, idcol)]

(***************************************************************************)
(* JSONFormatter and the encoders                                          *)
(***************************************************************************)
\* MongoJSONEncoder.default on a Header or a Table: the document encoder
\* converts the value types of documents and refuses every other object
MongoJSONEncoder_default(kind, o) == [err |-> "TypeError", val |-> <<>>]

\* ReportJSONEncoder.default
ReportJSONEncoder_default(kind, o) ==
    IF kind = "Header" THEN [err |-> "none", val |-> Header_to_dict(o)]
    ELSE IF kind = "Table" THEN [err |-> "none", val |-> Table_values(o)]
    ELSE MongoJSONEncoder_default(kind, o)

\* the encoder class JSONFormatter.format hands to json.dumps
JSONEncoderClass == "MongoJSONEncoder"

\* json.dumps meeting an object that is no dict, list, str or number: it asks
\* the encoder class's default
EncodeObject(cls, kind, o) ==
    IF cls = "ReportJSONEncoder" THEN ReportJSONEncoder_default(kind, o)
    ELSE MongoJSONEncoder_default(kind, o)

\* JSONFormatter.format: the document json.dumps writes (as it parses back),
\* or the error json.dumps raises, and the report afterwards
JSON_format(r) ==
    LET Info(h) == EncodeObject(JSONEncoderClass, "Header", h)
        Violations(t) == EncodeObject(JSONEncoderClass, "Table", t)
        Cond(cs) == [title |-> cs.header.title,
                     info |-> Info(cs.header).val,
                     violations |-> Violations(cs.body).val]
        Section(sec) == [title |-> sec.header.title,
                         info |-> Info(sec.header).val,
                         conditions |-> [c \in 1..Len(sec.sections) |->
                                           Cond(sec.sections[c])]]
        refused ==
            \/ Info(r.header).err # "none"
            \/ \E i \in 1..Len(r.sections) :
                  \/ Info(r.sections[i].header).err # "none"
                  \/ \E c \in 1..Len(r.sections[i].sections) :
                        \/ Info(r.sections[i].sections[c].header).err # "none"
                        \/ Violations(r.sections[i].sections[c].body).err # "none"
    IN IF refused
       THEN [err |-> "TypeError", doc |-> <<>>, report |-> r]
       ELSE [err |-> "none",
             doc |-> [title |-> r.header.title,
                      info |-> Info(r.header).val,
                      sections |-> [i \in 1..Len(r.sections) |-> Section(r.sections[i])]],
             report |-> r]

(***************************************************************************)
(* MarkdownFormatter                                                       *)
(***************************************************************************)
RECURSIVE Spaces(_)
Spaces(n) == IF n <= 0 THEN "" ELSE " " \o Spaces(n - 1)

\* "{:Ns}".format(s): s left-aligned, padded with spaces up to N characters,
\* never cut
FormatStr(s, n) == s \o Spaces(n - Len(s))

\* the field width _fixed_width gives a column of tracked width w
PadWidth_exact(w) == w
PadWidth(w) == w + 1

\* zip(widths, values)
ZipLen(widths, values) == IF Len(widths) < Len(values) THEN Len(widths) ELSE Len(values)

\* MarkdownFormatter._fixed_width: the segments, one per column, and their
\* concatenation
FixedWidthSegments(values, widths) ==
    [i \in 1..ZipLen(widths, values) |-> FormatStr(StrOf(values[i]), PadWidth(widths[i]))]

RECURSIVE Concat(_)
Concat(ss) == IF ss = <<>> THEN "" ELSE Head(ss) \o Concat(Tail(ss))

_fixed_width(values, widths) == Concat(FixedWidthSegments(values, widths))

\* MarkdownFormatter._mapdump; order is the order in which the dict yields
\* its keys
_mapdump(d, order) ==
    LET Has(k) == k \in DOMAIN d
        keys == SelectSeq(order, Has)
    IN Join([i \in 1..Len(keys) |-> keys[i] \o "=" \o d[keys[i]]], ", ")

\* the lines of a sub-section's table: the column names, then the rows
MDTableLines(t) ==
    <<"    " \o _fixed_width([i \in 1..Len(t.colnames) |-> PyStr(t.colnames[i])],
                             column_widths(t))>>
    \o [r \in 1..Len(t.rows) |-> "    " \o _fixed_width(t.rows[r], column_widths(t))]

\* a Header defines neither __len__ nor __nonzero__, so `if cond.header:` and
\* `if section.header:` always hold and the Info line is always written
MDCondLines(cond, order) ==
    <<"\n### " \o cond.header.title \o " ###\n",
      "Info: " \o _mapdump(Header_to_dict(cond.header), order),
      "\nViolations:\n">>
    \o MDTableLines(cond.body)

MDSectionLines(section, order) ==
    <<"\n## " \o section.header.title \o " ##\n",
      "Info: " \o _mapdump(Header_to_dict(section.header), order)>>
    \o Flatten([c \in 1..Len(section.sections) |->
                  MDCondLines(section.sections[c], order)])

\* MarkdownFormatter.format: the text returned and the report afterwards
Markdown_format(r, order) ==
    LET lines ==
            <<"# " \o r.header.title \o " #\n",
              "Info: " \o _mapdump(Header_to_dict(r.header), order)>>
            \o Flatten([s \in 1..Len(r.sections) |-> MDSectionLines(r.sections[s], order)])
    IN [err |-> "none", text |-> Join(lines, "\n"), report |-> r]

(***************************************************************************)
(* Reports handed to the formatters: built by the producer through         *)
(* Header.add, Table.add, Table.sortby and add_section, then only          *)
(* formatted.                                                              *)
(***************************************************************************)
RECURSIVE AddAll(_, _)
AddAll(t, rows) ==
    IF rows = <<>> THEN t ELSE AddAll(Table_add(t, Head(rows)).tbl, Tail(rows))

RECURSIVE AddPairs(_, _)
AddPairs(h, kvs) ==
    IF kvs = <<>> THEN h
    ELSE AddPairs(Header_add(h, Head(kvs)[1], Head(kvs)[2]), Tail(kvs))

\* every table of up to MaxFormatRows rows over the cell values
FreeTables ==
    UNION {{AddAll(Table_init(c), rs) :
               rs \in SeqsUpTo([1..Len(c) -> CellValues], MaxFormatRows)} :
           c \in ColNameChoices}

\* id values A, A, B, B, B, C
StripeExample ==
    AddAll(Table_init(<<"id", "count">>),
           <<<<PyStr("A"), PyInt(1)>>, <<PyStr("A"), PyInt(2)>>, <<PyStr("B"), PyInt(1)>>,
             <<PyStr("B"), PyInt(1)>>, <<PyStr("B"), PyInt(3)>>, <<PyStr("C"), PyInt(0)>>>>)

\* rows [[1,5],[1,3],[2,1]] under columns id, count, sorted by id
OrphansExample ==
    Table_sortby(AddAll(Table_init(<<"id", "count">>),
                        <<<<PyInt(1), PyInt(5)>>, <<PyInt(1), PyInt(3)>>,
                          <<PyInt(2), PyInt(1)>>>>),
                 PyStr("id")).tbl

ExampleTables == {StripeExample, OrphansExample}

\* the pairs headers are filled with: none, one, and a key added twice
PairChoices ==
    {<<>>,
     <<<<"host", "db1">>>>,
     <<<<"host", "db1">>, <<"user", "db2">>, <<"host", "db2">>>>}

MkHeader(title, kvs) == AddPairs(Header_init(title), kvs)

MkCond(title, kvs, t) == ReportSection_init(MkHeader(title, kvs), t)

MkSection(title, kvs, conds) ==
    LET RECURSIVE Fill(_, _)
        Fill(sec, cs) == IF cs = <<>> THEN sec
                         ELSE Fill(add_section(sec, Head(cs)), Tail(cs))
    IN Fill(ReportSection_init(MkHeader(title, kvs), PyNone), conds)

MkReport(title, kvs, secs) ==
    LET RECURSIVE Fill(_, _)
        Fill(r, ss) == IF ss = <<>> THEN r
                       ELSE Fill(add_section(r, Head(ss)), Tail(ss))
    IN Fill(Report_init(MkHeader(title, kvs)), secs)

Reports ==
    {MkReport("Nightly Check", k, <<>>) : k \in PairChoices}
    \cup {MkReport("Nightly Check", k,
                   <<MkSection("DB Consistency", <<<<"host", "db1">>>>, <<>>)>>) :
             k \in PairChoices}
    \cup {MkReport("Nightly Check", k,
                   <<MkSection("DB Consistency", <<<<"host", "db1">>>>,
                               <<MkCond("Orphans", k, t)>>)>>) :
             k \in PairChoices, t \in FreeTables \cup ExampleTables}
    \cup {MkReport("Nightly Check", <<>>,
                   <<MkSection("DB Consistency", <<<<"host", "db1">>>>,
                               <<MkCond("Orphans", <<>>, t), MkCond("Dangling", k, u)>>),
                     MkSection("Schema", k, <<MkCond("Types", <<>>, u)>>)>>) :
             k \in PairChoices, t \in ExampleTables, u \in ExampleTables}

\* the style sheets formatters are constructed with: none, and one rule
CssChoices == {"", "tr.even { background-color: #F2F2FF; }"}

\* the orders in which a dict may yield the header keys
KeyOrders == {<<"host", "user">>, <<"user", "host">>}

InitFormat ==
    /\ report \in Reports
    /\ tbl = IdleTable
    /\ hdr = IdleHeader
    /\ mailer = IdleMailer
    /\ op = NoCall

FormatHTML ==
    \E css \in CssChoices :
        LET r == HTML_format(report, "\n", id_column, css)
        IN /\ report' = r.report
           /\ op' = [name |-> "html", arg |-> css, err |-> r.err, result |-> r.text]
           /\ UNCHANGED <<tbl, hdr, mailer>>

FormatJSON ==
    LET r == JSON_format(report)
    IN /\ report' = r.report
       /\ op' = [name |-> "json", arg |-> "", err |-> r.err, result |-> r.doc]
       /\ UNCHANGED <<tbl, hdr, mailer>>

FormatMarkdown ==
    \E order \in KeyOrders :
        LET r == Markdown_format(report, order)
        IN /\ report' = r.report
           /\ op' = [name |-> "markdown", arg |-> order, err |-> r.err,
                     result |-> r.text]
           /\ UNCHANGED <<tbl, hdr, mailer>>

NextFormat == FormatHTML \/ FormatJSON \/ FormatMarkdown

SpecFormat == InitFormat /\ [][NextFormat]_vars

\* the tables of the report's sub-sections
CondTables(r) ==
    UNION {{r.sections[s].sections[c].body : c \in 1..Len(r.sections[s].sections)} :
           s \in 1..Len(r.sections)}

\* C5: in every sub-section table the HTML formatter renders, for every id
\* value: a row whose id equals the id of the row before it shows the id
\* blank and carries that row's class; every other row shows its id and, when
\* it is not the first, carries the other class; ids A, A, B, B, B, C give 3
\* stripes with the id shown on rows 1, 3, 6 and blank on rows 2, 4, 5.
C5_StripesEveryId ==
    op.name = "html" =>
        \A t \in CondTables(report) :
            LET idc == id_column + 1
                out == HTMLRowLoop(t.rows, id_column).out
            IN /\ Len(out) = Len(t.rows)
               /\ \A r \in 1..Len(t.rows) :
                     IF r > 1 /\ t.rows[r][idc] = t.rows[r - 1][idc]
                     THEN /\ out[r].cells[idc] = PyStr("")
                          /\ out[r].rclass = out[r - 1].rclass
                     ELSE /\ out[r].cells[idc] = t.rows[r][idc]
                          /\ r > 1 => out[r].rclass # out[r - 1].rclass
               /\ t = StripeExample =>
                     /\ HTMLRowLoop(t.rows, id_column).i = 3
                     /\ \A r \in {1, 3, 6} : out[r].cells[idc] = t.rows[r][idc]
                     /\ \A r \in {2, 4, 5} : out[r].cells[idc] = PyStr("")

\* the document the JSON formatter is to return for a report
ExpectedDocument(r) ==
    [title |-> r.header.title,
     info |-> Header_to_dict(r.header),
     sections |->
        [s \in 1..Len(r.sections) |->
            [title |-> r.sections[s].header.title,
             info |-> Header_to_dict(r.sections[s].header),
             conditions |->
                [c \in 1..Len(r.sections[s].sections) |->
                    [title |-> r.sections[s].sections[c].header.title,
                     info |-> Header_to_dict(r.sections[s].sections[c].header),
                     violations |-> Table_values(r.sections[s].sections[c].body)]]]]]

\* C7: for every report of sections of sub-sections with tables,
\* JSONFormatter.format returns a document of shape {title, info, sections:
\* [{title, info, conditions: [{title, info, violations}]}]} carrying the
\* titles, each header's to_dict under info and each table's values, in row
\* order, under violations.
C7_JSONDocument ==
    op.name = "json" =>
        /\ op.err = "none"
        /\ op.result = ExpectedDocument(report)

\* C9: HTMLFormatter.format, JSONFormatter.format and MarkdownFormatter.format
\* leave every header, every table's rows, column names and widths, and every
\* section list of the report as they were.
C9_FormattersOnlyRead ==
    [][op'.name \in {"html", "json", "markdown"} => report' = report]_vars

\* the HTML formatter has rendered a table in which it showed an id blank,
\* and the table still holds that id
C9_Witness ==
    /\ op.name = "html"
    /\ \E t \in CondTables(report) :
          \E r \in 1..Len(t.rows) :
              /\ HTMLRowLoop(t.rows, id_column).out[r].cells[id_column + 1] = PyStr("")
              /\ t.rows[r][id_column + 1] # PyStr("")

\* the values of the lines of a table: the column names, then the rows
LineValues(t) ==
    <<[i \in 1..Len(t.colnames) |-> PyStr(t.colnames[i])]>> \o t.rows

RECURSIVE SumLen(_, _)
SumLen(segs, n) == IF n = 0 THEN 0 ELSE SumLen(segs, n - 1) + Len(segs[n])

\* C10: in the Markdown output of a table built through Table.add, the
\* header line and every data line are one segment per column with nothing in
\* between; segment i is str(value) followed by at least one space, at least
\* column_widths[i] + 1 characters in all, so every column starts at the same
\* offset on every line.
C10_FixedWidthSegments ==
    op.name = "markdown" =>
        \A t \in CondTables(report) :
            LET w == column_widths(t)
                vals == LineValues(t)
                lines == MDTableLines(t)
            IN /\ Len(lines) = Len(vals)
               /\ \A l \in 1..Len(vals) :
                     LET segs == FixedWidthSegments(vals[l], w)
                     IN /\ Len(segs) = ncol(t)
                        /\ lines[l] = "    " \o Concat(segs)
                        /\ \A i \in 1..ncol(t) :
                              /\ Len(segs[i]) >= w[i] + 1
                              /\ \E k \in 1..(w[i] + 1) :
                                    segs[i] = StrOf(vals[l][i]) \o Spaces(k)
                              /\ SumLen(segs, i - 1) =
                                    SumLen(FixedWidthSegments(vals[1], w), i - 1)

\* the Markdown formatter has rendered a table whose first column holds a
\* value longer than the column's name and a shorter value beside it
C10_Witness ==
    /\ op.name = "markdown"
    /\ \E t \in CondTables(report) :
          /\ ncol(t) = 2
          /\ column_widths(t)[1] > Len(column_names(t)[1])
          /\ \E r \in 1..nrow(t) : Len(StrOf(t.rows[r][1])) < column_widths(t)[1]

====
